---- MODULE Spec2Model ----
(***************************************************************************)
(* Model of vcf_venn_plotter.py: one run of main().                        *)
(*                                                                         *)
(* The run is a sequential pipeline.  pc is the position of the run:       *)
(*   start -> args -> main -> read -> identify -> count -> figure          *)
(*         -> balance -> draw -> save -> summary -> exited                 *)
(* and every early end of the process jumps to "exited" with its status.   *)
(*                                                                         *)
(* The cosmetic arguments (colors, fonts, outline, dpi, alpha) do not      *)
(* reach any counted value.  pandas, matplotlib and matplotlib-venn are    *)
(* libraries: a call into them is modelled by the arguments it gets and    *)
(* by its two outcomes, it returns or it raises.  create_venn_diagram      *)
(* catches nothing, so a call that raises (a figure size, a color or an    *)
(* alpha the library refuses, counts it cannot lay out, an output path it  *)
(* cannot write) ends the process with a traceback and status 1.           *)
(***************************************************************************)
EXTENDS Integers, Sequences, FiniteSets, TLC

VARIABLES
    pc,              \* position of the run
    df,              \* the table read by pd.read_csv: [columns, rows]
    caller_columns,  \* read_tsv_and_count_variants: caller_columns
    caller_names,    \* read_tsv_and_count_variants: caller_names
    counts,          \* the counts dict (key string -> number of rows)
    num_callers,     \* data['num_callers']
    normalize_to,    \* create_venn_diagram: normalize_to ("None" or "region")
    all_counts,      \* create_venn_diagram: all_counts (<<>> while unassigned)
    max_count,       \* create_venn_diagram: max_count ("None" while unassigned)
    min_nonzero,     \* create_venn_diagram: min_nonzero ("None" while unassigned)
    venn_call,       \* the venn2/venn3 call made, with its arguments
    image_written,   \* plt.savefig has written args.output
    stdout,          \* lines printed to standard output
    stderr,          \* lines printed to standard error
    exit_code        \* exit status of the process (meaningful when pc = "exited")

vars == << pc, df, caller_columns, caller_names, counts, num_callers,
           normalize_to, all_counts, max_count, min_nonzero, venn_call,
           image_written, stdout, stderr, exit_code >>

(***************************************************************************)
(* Bounds of the inputs                                                    *)
(***************************************************************************)
\* Spec: a header has at most MaxCols columns and a table at most MaxCells
\* flag cells (columns times rows).
MaxCols == 4
MaxCells == 4
\* SpecCount: a table has at most MaxCountCells cells (5 rows of 2 columns,
\* 3 rows of 3 columns).
MaxCountCells == 10
\* SpecVenn: the rows of the table number at most MaxTotal.
MaxTotal == 12

\* Column names an input header is drawn from: the six recognized names and
\* one column that is not a caller.
ColumnPool == {"Bcftools", "FreeBayes", "GATK", "bcftools", "freebayes", "gatk", "CHROM"}

\* Cell values of the input tables: 2 stands for any cell that is neither 0
\* nor 1.
Cells == {0, 1, 2}

\* Headers of the tables of SpecCount.
CountHeaders == { <<"Bcftools", "FreeBayes">>,
                  <<"gatk", "bcftools">>,
                  <<"GATK", "Bcftools", "FreeBayes">> }

(***************************************************************************)
(* Helpers                                                                 *)
(***************************************************************************)
Range(s) == { s[i] : i \in DOMAIN s }

Injective(s) == \A i, j \in DOMAIN s : s[i] = s[j] => i = j

\* The headers pd.read_csv can return with at most maxCols columns: distinct
\* names (pandas renames duplicates), at least one.
Headers(maxCols) ==
    UNION { { g \in [1..k -> ColumnPool] : Injective(g) } : k \in 1..maxCols }

\* The row lists of a table with header h and at most maxCells cells: one
\* cell per column in every row.
RowLists(h, maxCells) ==
    UNION { [1..n -> [1..Len(h) -> Cells]] : n \in 0..(maxCells \div Len(h)) }

NoTable == [columns |-> <<>>, rows |-> <<>>]

NoCounts == [k \in {} |-> 0]

NoCall == [fn |-> "none", subsets |-> <<>>, set_labels |-> <<>>, normalize_to |-> "None"]

\* One printed line: what it says, the caller names it mentions, its number.
Line(tag, names, value) == [tag |-> tag, names |-> names, value |-> value]

(***************************************************************************)
(* read_tsv_and_count_variants                                             *)
(***************************************************************************)
possible_callers == <<"Bcftools", "FreeBayes", "GATK", "bcftools", "freebayes", "gatk">>

\* for caller in possible_callers: if caller in df.columns: append
RECURSIVE ScanCallers(_, _, _)
ScanCallers(i, columns, acc) ==
    IF i > Len(possible_callers) THEN acc
    ELSE ScanCallers(i + 1, columns,
                     IF possible_callers[i] \in Range(columns)
                     THEN Append(acc, possible_callers[i])
                     ELSE acc)

\* A selection that walks the header instead of the fixed list.
SelectInHeaderOrder(columns) ==
    SelectSeq(columns, LAMBDA c : c \in Range(possible_callers))

SelectCallers(columns) == ScanCallers(1, columns, <<>>)

\* if len(caller_columns) < 2
InsufficientColumnsOffByOne(cc) == Len(cc) < 1

InsufficientColumns(cc) == Len(cc) < 2

\* The list printed after "Available columns:", with the caller matches
\* printed in place of the header.
AvailableColumnsMatchesOnly(table, cc) == cc

\* df.columns.tolist()
AvailableColumns(table, cc) == table.columns

\* df[name]: the position of the column in the header
ColumnOf(table, name) == CHOOSE j \in DOMAIN table.columns : table.columns[j] = name

\* len(df[(df[c1] == v1) & (df[c2] == v2)])
Len2(table, c1, v1, c2, v2) ==
    Cardinality({ i \in DOMAIN table.rows :
                    /\ table.rows[i][ColumnOf(table, c1)] = v1
                    /\ table.rows[i][ColumnOf(table, c2)] = v2 })

\* len(df[(df[c1] == v1) & (df[c2] == v2) & (df[c3] == v3)])
Len3(table, c1, v1, c2, v2, c3, v3) ==
    Cardinality({ i \in DOMAIN table.rows :
                    /\ table.rows[i][ColumnOf(table, c1)] = v1
                    /\ table.rows[i][ColumnOf(table, c2)] = v2
                    /\ table.rows[i][ColumnOf(table, c3)] = v3 })

\* The two-caller branch with the (1,1) filter testing the first flag only.
Count2BothLoose(table, cc) ==
    LET caller1 == cc[1]
        caller2 == cc[2]
    IN  [ k \in {"10", "01", "11"} |->
            CASE k = "10" -> Len2(table, caller1, 1, caller2, 0)
              [] k = "01" -> Len2(table, caller1, 0, caller2, 1)
              [] k = "11" -> Len2(table, caller1, 1, caller1, 1) ]

\* if len(caller_columns) == 2
Count2(table, cc) ==
    LET caller1 == cc[1]
        caller2 == cc[2]
    IN  [ k \in {"10", "01", "11"} |->
            CASE k = "10" -> Len2(table, caller1, 1, caller2, 0)
              [] k = "01" -> Len2(table, caller1, 0, caller2, 1)
              [] k = "11" -> Len2(table, caller1, 1, caller2, 1) ]

\* The three-caller branch with the filters of '110' and '011' exchanged.
Count3Exchanged(table, cc) ==
    LET caller1 == cc[1]
        caller2 == cc[2]
        caller3 == cc[3]
    IN  [ k \in {"100", "010", "001", "110", "101", "011", "111"} |->
            CASE k = "100" -> Len3(table, caller1, 1, caller2, 0, caller3, 0)
              [] k = "010" -> Len3(table, caller1, 0, caller2, 1, caller3, 0)
              [] k = "001" -> Len3(table, caller1, 0, caller2, 0, caller3, 1)
              [] k = "110" -> Len3(table, caller1, 0, caller2, 1, caller3, 1)
              [] k = "101" -> Len3(table, caller1, 1, caller2, 0, caller3, 1)
              [] k = "011" -> Len3(table, caller1, 1, caller2, 1, caller3, 0)
              [] k = "111" -> Len3(table, caller1, 1, caller2, 1, caller3, 1) ]

\* elif len(caller_columns) == 3
Count3(table, cc) ==
    LET caller1 == cc[1]
        caller2 == cc[2]
        caller3 == cc[3]
    IN  [ k \in {"100", "010", "001", "110", "101", "011", "111"} |->
            CASE k = "100" -> Len3(table, caller1, 1, caller2, 0, caller3, 0)
              [] k = "010" -> Len3(table, caller1, 0, caller2, 1, caller3, 0)
              [] k = "001" -> Len3(table, caller1, 0, caller2, 0, caller3, 1)
              [] k = "110" -> Len3(table, caller1, 1, caller2, 1, caller3, 0)
              [] k = "101" -> Len3(table, caller1, 1, caller2, 0, caller3, 1)
              [] k = "011" -> Len3(table, caller1, 0, caller2, 1, caller3, 1)
              [] k = "111" -> Len3(table, caller1, 1, caller2, 1, caller3, 1) ]

\* counts = {} and the if/elif over len(caller_columns); no branch is taken
\* for 4 or more columns and counts stays empty.
CountCombinations(table, cc) ==
    IF Len(cc) = 2 THEN Count2(table, cc)
    ELSE IF Len(cc) = 3 THEN Count3(table, cc)
    ELSE NoCounts

(***************************************************************************)
(* create_venn_diagram                                                     *)
(***************************************************************************)
\* all_counts = [counts['100'], counts['010'], counts['001'], counts['110'],
\*               counts['101'], counts['011'], counts['111']]
AllCounts(c) == << c["100"], c["010"], c["001"], c["110"], c["101"], c["011"], c["111"] >>

\* max(all_counts) if all_counts else 1
MaxCount(ac) ==
    IF ac = <<>> THEN 1
    ELSE CHOOSE m \in Range(ac) : \A x \in Range(ac) : x <= m

\* The smallest non-zero count with a fallback of 0.
MinNonzeroZeroFallback(ac) ==
    IF \E x \in Range(ac) : x > 0
    THEN CHOOSE m \in { x \in Range(ac) : x > 0 } :
             \A x \in { y \in Range(ac) : y > 0 } : m <= x
    ELSE 0

\* min([c for c in all_counts if c > 0]) if any(c > 0 ...) else 1
MinNonzero(ac) ==
    IF \E x \in Range(ac) : x > 0
    THEN CHOOSE m \in { x \in Range(ac) : x > 0 } :
             \A x \in { y \in Range(ac) : y > 0 } : m <= x
    ELSE 1

\* if max_count > 10 * min_nonzero
Unbalanced(mx, mn) == mx > 10 * mn

\* subsets = (counts['10'], counts['01'], counts['11'])
Venn2Subsets(c) == << c["10"], c["01"], c["11"] >>

\* The three-set tuple in the order of the keys' listing in all_counts.
Venn3SubsetsKeyOrder(c) ==
    << c["100"], c["010"], c["001"], c["110"], c["101"], c["011"], c["111"] >>

\* subsets = (counts['100'], counts['010'], counts['110'], counts['001'],
\*            counts['101'], counts['011'], counts['111'])
Venn3Subsets(c) ==
    << c["100"], c["010"], c["110"], c["001"], c["101"], c["011"], c["111"] >>

\* The lines printed after "Variant counts:".
SummaryLines(names, c, n) ==
    IF n = 2 THEN
        << Line("Unique to", <<names[1]>>, c["10"]),
           Line("Unique to", <<names[2]>>, c["01"]),
           Line("Common to both", <<names[1], names[2]>>, c["11"]) >>
    ELSE IF n = 3 THEN
        << Line("Unique to", <<names[1]>>, c["100"]),
           Line("Unique to", <<names[2]>>, c["010"]),
           Line("Unique to", <<names[3]>>, c["001"]),
           Line("only", <<names[1], names[2]>>, c["110"]),
           Line("only", <<names[1], names[3]>>, c["101"]),
           Line("only", <<names[2], names[3]>>, c["011"]),
           Line("Common to all three", <<names[1], names[2], names[3]>>, c["111"]) >>
    ELSE <<>>

(***************************************************************************)
(* What main and read_tsv_and_count_variants have printed on the way       *)
(***************************************************************************)
\* print("VCF Venn Diagram Plotter"), print("=" * 50), "Reading input file"
StdoutAtRead ==
    << Line("VCF Venn Diagram Plotter", <<>>, 0),
       Line("Reading input file", <<>>, 0) >>

\* ... "Found n callers: ..."
StdoutAtCount(names) == Append(StdoutAtRead, Line("Found callers", names, Len(names)))

\* ... "Creating n-way Venn diagram..."
StdoutAtBalance(names) ==
    Append(StdoutAtCount(names), Line("Creating Venn diagram", <<>>, Len(names)))

(***************************************************************************)
(* The run                                                                 *)
(***************************************************************************)
Init ==
    /\ pc = "start"
    /\ df = NoTable
    /\ caller_columns = <<>>
    /\ caller_names = <<>>
    /\ counts = NoCounts
    /\ num_callers = 0
    /\ normalize_to = "None"
    /\ all_counts = <<>>
    /\ max_count = "None"
    /\ min_nonzero = "None"
    /\ venn_call = NoCall
    /\ image_written = FALSE
    /\ stdout = <<>>
    /\ stderr = <<>>
    /\ exit_code = 0

\* The imports at the head of the module, run before main is called.  A
\* missing matplotlib_venn (or pandas, matplotlib) ends the process there
\* with an uncaught ImportError: a traceback on the error stream, status 1.
ImportModules ==
    /\ pc = "start"
    /\ \E installed \in BOOLEAN :
         IF installed
         THEN /\ pc' = "args"
              /\ UNCHANGED << stderr, exit_code >>
         ELSE /\ pc' = "exited"
              /\ stderr' = Append(stderr, Line("ImportError: matplotlib_venn", <<>>, 0))
              /\ exit_code' = 1
    /\ UNCHANGED << df, caller_columns, caller_names, counts, num_callers,
                    normalize_to, all_counts, max_count, min_nonzero,
                    venn_call, image_written, stdout >>

\* The command lines parse_arguments tells apart: one it accepts, a request
\* for help (-h/--help), one it rejects (a required option missing, a value
\* of the wrong type or outside the choices).
CommandLines == {"accepted", "help", "rejected"}

\* args = parse_arguments(): argparse prints the usage and exits with status
\* 0 on --help, prints an error to the error stream and exits with status 2
\* on a command line it rejects.
ParseArguments ==
    /\ pc = "args"
    /\ \E argv \in CommandLines :
         CASE argv = "accepted" ->
                /\ pc' = "main"
                /\ UNCHANGED << stdout, stderr, exit_code >>
           [] argv = "help" ->
                /\ pc' = "exited"
                /\ stdout' = Append(stdout, Line("usage", <<>>, 0))
                /\ UNCHANGED << stderr, exit_code >>
           [] argv = "rejected" ->
                /\ pc' = "exited"
                /\ stderr' = Append(stderr, Line("usage error", <<>>, 0))
                /\ exit_code' = 2
                /\ UNCHANGED stdout
    /\ UNCHANGED << df, caller_columns, caller_names, counts, num_callers,
                    normalize_to, all_counts, max_count, min_nonzero,
                    venn_call, image_written >>

\* The banner, the import of matplotlib_venn inside main and "Reading input
\* file".  The import cannot fail here: the module was imported at the head
\* of the file, so the except branch is never taken.
DependencyCheck ==
    /\ pc = "main"
    /\ pc' = "read"
    /\ stdout' = stdout \o StdoutAtRead
    /\ UNCHANGED << df, caller_columns, caller_names, counts, num_callers,
                    normalize_to, all_counts, max_count, min_nonzero,
                    venn_call, image_written, stderr, exit_code >>

\* df = pd.read_csv(tsv_file, sep='\t'), or the except branch
ReadCsv(headers, maxCells) ==
    /\ pc = "read"
    /\ \E readable \in BOOLEAN :
         IF readable
         THEN /\ \E h \in headers : \E r \in RowLists(h, maxCells) :
                   df' = [columns |-> h, rows |-> r]
              /\ pc' = "identify"
              /\ UNCHANGED << stderr, exit_code >>
         ELSE /\ pc' = "exited"
              /\ stderr' = Append(stderr, Line("Error reading TSV file", <<>>, 0))
              /\ exit_code' = 1
              /\ UNCHANGED df
    /\ UNCHANGED << caller_columns, caller_names, counts, num_callers,
                    normalize_to, all_counts, max_count, min_nonzero,
                    venn_call, image_written, stdout >>

\* The scan of possible_callers and the check for at least 2 columns
IdentifyCallers ==
    /\ pc = "identify"
    /\ LET cc == SelectCallers(df.columns)
       IN  /\ caller_columns' = cc
           /\ caller_names' = cc
           /\ IF InsufficientColumns(cc)
              THEN /\ pc' = "exited"
                   /\ stderr' = stderr \o
                        << Line("Error: Could not find at least 2 caller columns in TSV file", <<>>, 0),
                           Line("Available columns", AvailableColumns(df, cc), 0) >>
                   /\ exit_code' = 1
                   /\ UNCHANGED stdout
              ELSE /\ pc' = "count"
                   /\ stdout' = StdoutAtCount(cc)
                   /\ UNCHANGED << stderr, exit_code >>
    /\ UNCHANGED << df, counts, num_callers, normalize_to, all_counts,
                    max_count, min_nonzero, venn_call, image_written >>

\* The counting branches and the return of the data dict; main then prints
\* "Creating n-way Venn diagram..." and enters create_venn_diagram.
CountVariants ==
    /\ pc = "count"
    /\ counts' = CountCombinations(df, caller_columns)
    /\ num_callers' = Len(caller_columns)
    /\ stdout' = StdoutAtBalance(caller_names)
    /\ pc' = "figure"
    /\ UNCHANGED << df, caller_columns, caller_names, normalize_to, all_counts,
                    max_count, min_nonzero, venn_call, image_written,
                    stderr, exit_code >>

\* The head of create_venn_diagram: the style and color conversions and
\* fig, ax = plt.subplots(figsize=...), which raises on a figure size the
\* library refuses.
CreateFigure ==
    /\ pc = "figure"
    /\ \E created \in BOOLEAN :
         IF created
         THEN /\ pc' = "balance"
              /\ UNCHANGED << stderr, exit_code >>
         ELSE /\ pc' = "exited"
              /\ stderr' = Append(stderr, Line("subplots error", <<>>, 0))
              /\ exit_code' = 1
    /\ UNCHANGED << df, caller_columns, caller_names, counts, num_callers,
                    normalize_to, all_counts, max_count, min_nonzero,
                    venn_call, image_written, stdout >>

\* normalize_to = None; if num_callers == 3: ... normalize_to = 'region'
CheckBalance ==
    /\ pc = "balance"
    /\ IF num_callers = 3
       THEN LET ac == AllCounts(counts)
                mx == MaxCount(ac)
                mn == MinNonzero(ac)
            IN  /\ all_counts' = ac
                /\ max_count' = mx
                /\ min_nonzero' = mn
                /\ normalize_to' = IF Unbalanced(mx, mn) THEN "region" ELSE "None"
       ELSE /\ normalize_to' = "None"
            /\ UNCHANGED << all_counts, max_count, min_nonzero >>
    /\ pc' = "draw"
    /\ UNCHANGED << df, caller_columns, caller_names, counts, num_callers,
                    venn_call, image_written, stdout, stderr, exit_code >>

\* The venn2/venn3 call of the branch taken, with its arguments.
VennCall(n, c, names, hint) ==
    IF n = 2
    THEN [fn |-> "venn2", subsets |-> Venn2Subsets(c),
          set_labels |-> names, normalize_to |-> hint]
    ELSE IF n = 3
    THEN [fn |-> "venn3", subsets |-> Venn3Subsets(c),
          set_labels |-> names, normalize_to |-> "default"]
    ELSE NoCall

\* if num_callers == 2: venn2(..., normalize_to=normalize_to), the patch
\* colors, the fonts, venn2_circles
\* elif num_callers == 3: venn3(...) without a normalize_to argument, the
\* fonts, venn3_circles
\* Any of these library calls may raise, and nothing catches it.  With 4 or
\* more callers neither branch runs and no call is made.
DrawVenn ==
    /\ pc = "draw"
    /\ venn_call' = VennCall(num_callers, counts, caller_names, normalize_to)
    /\ \E rendered \in BOOLEAN :
         IF rendered \/ num_callers \notin {2, 3}
         THEN /\ pc' = "save"
              /\ UNCHANGED << stderr, exit_code >>
         ELSE /\ pc' = "exited"
              /\ stderr' = Append(stderr, Line("render error", <<>>, 0))
              /\ exit_code' = 1
    /\ UNCHANGED << df, caller_columns, caller_names, counts, num_callers,
                    normalize_to, all_counts, max_count, min_nonzero,
                    image_written, stdout >>

\* plt.savefig(args.output, ...) and "Venn diagram saved to: ...".  On an
\* output path that cannot be written savefig raises and nothing catches it:
\* a traceback on the error stream, status 1, no image and no further line.
SaveFigure ==
    /\ pc = "save"
    /\ \E writable \in BOOLEAN :
         IF writable
         THEN /\ image_written' = TRUE
              /\ stdout' = Append(stdout, Line("Venn diagram saved to", <<>>, 0))
              /\ pc' = "summary"
              /\ UNCHANGED << stderr, exit_code >>
         ELSE /\ pc' = "exited"
              /\ stderr' = Append(stderr, Line("savefig error", <<>>, 0))
              /\ exit_code' = 1
              /\ UNCHANGED << image_written, stdout >>
    /\ UNCHANGED << df, caller_columns, caller_names, counts, num_callers,
                    normalize_to, all_counts, max_count, min_nonzero,
                    venn_call >>

\* The printed summary, main's "Done!" and the normal end of the process
PrintSummary ==
    /\ pc = "summary"
    /\ stdout' = (Append(stdout, Line("Variant counts:", <<>>, 0))
                    \o SummaryLines(caller_names, counts, num_callers))
                    \o << Line("Done!", <<>>, 0) >>
    /\ pc' = "exited"
    /\ UNCHANGED << df, caller_columns, caller_names, counts, num_callers,
                    normalize_to, all_counts, max_count, min_nonzero,
                    venn_call, image_written, stderr, exit_code >>

Next ==
    \/ ImportModules
    \/ ParseArguments
    \/ DependencyCheck
    \/ ReadCsv(Headers(MaxCols), MaxCells)
    \/ IdentifyCallers
    \/ CountVariants
    \/ CreateFigure
    \/ CheckBalance
    \/ DrawVenn
    \/ SaveFigure
    \/ PrintSummary

Spec == Init /\ [][Next]_vars

(***************************************************************************)
(* SpecCount: the same run on tables with few headers and many rows        *)
(***************************************************************************)
NextCount ==
    \/ ImportModules
    \/ ParseArguments
    \/ DependencyCheck
    \/ ReadCsv(CountHeaders, MaxCountCells)
    \/ IdentifyCallers
    \/ CountVariants
    \/ CreateFigure
    \/ CheckBalance
    \/ DrawVenn
    \/ SaveFigure
    \/ PrintSummary

SpecCount == Init /\ [][NextCount]_vars

(***************************************************************************)
(* SpecVenn: create_venn_diagram on the data of a table of up to MaxTotal  *)
(* rows.  The run starts where main enters create_venn_diagram; the table  *)
(* is given with its rows grouped by pattern.                              *)
(***************************************************************************)
Repeat(row, n) == [i \in 1..n |-> row]

\* The state in which main enters create_venn_diagram after reading the
\* table [columns |-> names, rows |-> rows] whose counts are c.
EnterVenn(names, rows, c) ==
    /\ pc = "figure"
    /\ df = [columns |-> names, rows |-> rows]
    /\ caller_columns = names
    /\ caller_names = names
    /\ counts = c
    /\ num_callers = Len(names)
    /\ normalize_to = "None"
    /\ all_counts = <<>>
    /\ max_count = "None"
    /\ min_nonzero = "None"
    /\ venn_call = NoCall
    /\ image_written = FALSE
    /\ stdout = StdoutAtBalance(names)
    /\ stderr = <<>>
    /\ exit_code = 0

InitVenn2 ==
    \E z \in 0..MaxTotal : \E a \in 0..(MaxTotal - z) :
    \E b \in 0..(MaxTotal - z - a) : \E ab \in 0..(MaxTotal - z - a - b) :
        EnterVenn(<<"Bcftools", "FreeBayes">>,
                  Repeat(<<0, 0>>, z) \o Repeat(<<1, 0>>, a) \o Repeat(<<0, 1>>, b)
                      \o Repeat(<<1, 1>>, ab),
                  [ k \in {"10", "01", "11"} |->
                      CASE k = "10" -> a [] k = "01" -> b [] k = "11" -> ab ])

InitVenn3 ==
    \E z \in 0..MaxTotal : \E a \in 0..(MaxTotal - z) :
    \E b \in 0..(MaxTotal - z - a) : \E c \in 0..(MaxTotal - z - a - b) :
    \E ab \in 0..(MaxTotal - z - a - b - c) :
    \E ac \in 0..(MaxTotal - z - a - b - c - ab) :
    \E bc \in 0..(MaxTotal - z - a - b - c - ab - ac) :
    \E abc \in 0..(MaxTotal - z - a - b - c - ab - ac - bc) :
        EnterVenn(<<"Bcftools", "FreeBayes", "GATK">>,
                  Repeat(<<0, 0, 0>>, z) \o Repeat(<<1, 0, 0>>, a)
                      \o Repeat(<<0, 1, 0>>, b) \o Repeat(<<0, 0, 1>>, c)
                      \o Repeat(<<1, 1, 0>>, ab) \o Repeat(<<1, 0, 1>>, ac)
                      \o Repeat(<<0, 1, 1>>, bc) \o Repeat(<<1, 1, 1>>, abc),
                  [ k \in {"100", "010", "001", "110", "101", "011", "111"} |->
                      CASE k = "100" -> a [] k = "010" -> b [] k = "001" -> c
                        [] k = "110" -> ab [] k = "101" -> ac [] k = "011" -> bc
                        [] k = "111" -> abc ])

\* Four recognized columns: no counting branch runs.
InitVenn4 ==
    \E z \in 0..MaxTotal :
        EnterVenn(<<"Bcftools", "FreeBayes", "GATK", "bcftools">>,
                  Repeat(<<0, 0, 0, 0>>, z), NoCounts)

InitVenn == InitVenn2 \/ InitVenn3 \/ InitVenn4

NextVenn ==
    \/ CreateFigure
    \/ CheckBalance
    \/ DrawVenn
    \/ SaveFigure
    \/ PrintSummary

SpecVenn == InitVenn /\ [][NextVenn]_vars

\* The states SpecVenn starts in are states of the run: the counts are those
\* the counting code gives for the table.
VennEntryConsistent == counts = CountCombinations(df, caller_columns)

(***************************************************************************)
(* Vocabulary of the properties                                            *)
(***************************************************************************)
\* The key of a membership pattern: '1' where the flag is 1, '0' where 0.
RECURSIVE PatternKey(_)
PatternKey(bits) ==
    IF bits = <<>> THEN ""
    ELSE (IF Head(bits) = 1 THEN "1" ELSE "0") \o PatternKey(Tail(bits))

\* The non-empty membership patterns over n callers.
NonEmptyPatterns(n) == { b \in [1..n -> {0, 1}] : \E j \in 1..n : b[j] = 1 }

\* The key of the pattern whose set bits are the callers numbered in S.
KeyOfSet(S, n) == PatternKey([j \in 1..n |-> IF j \in S THEN 1 ELSE 0])

\* The flags of row i in the selected columns, in caller order.
Flags(i) == [ j \in DOMAIN caller_names |-> df.rows[i][ColumnOf(df, caller_names[j])] ]

RowsWithFlags(b) == { i \in DOMAIN df.rows : Flags(i) = b }

AllZeroRows == { i \in DOMAIN df.rows : \A j \in DOMAIN caller_names : Flags(i)[j] = 0 }

NonBinaryRows == { i \in DOMAIN df.rows : \E j \in DOMAIN caller_names : Flags(i)[j] \notin {0, 1} }

RECURSIVE SumOver(_, _)
SumOver(f, keys) ==
    IF keys = {} THEN 0
    ELSE LET k == CHOOSE x \in keys : TRUE
         IN  f[k] + SumOver(f, keys \ {k})

SumOfCounts == SumOver(counts, DOMAIN counts)

\* The recognized names present in the header of the table.
RecognizedInHeader == Range(df.columns) \cap Range(possible_callers)

\* savefig raised: the run ended at the image-write step.
SaveFailed == stderr # <<>> /\ stderr[1].tag = "savefig error"

\* plt.subplots raised: the run ended before the imbalance check.
FigureFailed == stderr # <<>> /\ stderr[1].tag = "subplots error"

\* A call of the drawing branch raised: the run ended before savefig.
RenderFailed == stderr # <<>> /\ stderr[1].tag = "render error"

\* A call of the plotting library raised inside create_venn_diagram.
LibraryFailed == FigureFailed \/ RenderFailed \/ SaveFailed

\* read_tsv_and_count_variants has returned its data to main.
Returned ==
    \/ pc \in {"figure", "balance", "draw", "save", "summary"}
    \/ pc = "exited" /\ (image_written \/ LibraryFailed)

\* The column scan has run on the table that was read.
Scanned == df # NoTable /\ pc # "identify"

(***************************************************************************)
(* Counting (checked under SpecCount)                                      *)
(***************************************************************************)
\* C1 as stated: for every table with 2 or 3 selected caller columns, whatever
\* the flag cells hold, the sum of the bucket counts plus the number of rows
\* whose selected flags are all 0 equals the number of rows.
C1_PartitionAnyCells ==
    (Returned /\ num_callers \in {2, 3})
        => SumOfCounts + Cardinality(AllZeroRows) = Len(df.rows)

\* C1 amended: for every table with 2 or 3 selected caller columns, the sum of
\* the bucket counts, plus the number of rows whose selected flags are all 0,
\* plus the number of rows with a selected flag that is neither 0 nor 1,
\* equals the number of rows; with 0/1 flags only, the buckets and the
\* all-zero rows partition the table.
C1_PartitionBinary ==
    (Returned /\ num_callers \in {2, 3})
        => /\ SumOfCounts + Cardinality(AllZeroRows) + Cardinality(NonBinaryRows)
                = Len(df.rows)
           /\ AllZeroRows \cap NonBinaryRows = {}
           /\ NonBinaryRows = {}
                => SumOfCounts + Cardinality(AllZeroRows) = Len(df.rows)

\* A returned three-caller table with a counted row, an all-zero row and a
\* row holding a flag that is neither 0 nor 1.
C1_Witness ==
    /\ Returned
    /\ num_callers = 3
    /\ SumOfCounts = 1
    /\ Cardinality(AllZeroRows) = 1
    /\ Cardinality(NonBinaryRows) = 1

\* C6: for every returned bucket of a table with 2 or 3 selected caller
\* columns, the count under a pattern key is the number of rows whose selected
\* flags, in caller order, equal the pattern exactly.
C6_BucketIsExactMatchCount ==
    (Returned /\ num_callers \in {2, 3})
        => /\ DOMAIN counts = { PatternKey(b) : b \in NonEmptyPatterns(num_callers) }
           /\ \A b \in NonEmptyPatterns(num_callers) :
                 counts[PatternKey(b)] = Cardinality(RowsWithFlags(b))

\* The spec's scenario A: columns Bcftools, FreeBayes and the rows
\* (1,0),(0,1),(1,1),(0,0),(1,0) have been counted as {10:2, 01:1, 11:1}.
C6_Witness ==
    /\ Returned
    /\ df = [columns |-> <<"Bcftools", "FreeBayes">>,
             rows |-> << <<1, 0>>, <<0, 1>>, <<1, 1>>, <<0, 0>>, <<1, 0>> >>]
    /\ counts["10"] = 2
    /\ counts["01"] = 1
    /\ counts["11"] = 1

\* A returned three-caller table whose header is not in priority order, with
\* a row in bucket 110 and none in 011.
C6_WitnessThree ==
    /\ Returned
    /\ df.columns = <<"GATK", "Bcftools", "FreeBayes">>
    /\ caller_names = <<"Bcftools", "FreeBayes", "GATK">>
    /\ counts["110"] = 2
    /\ counts["011"] = 0
    /\ counts["001"] = 1

(***************************************************************************)
(* Column selection and the run of main (checked under Spec)               *)
(***************************************************************************)
\* The recognized names of the header, in the order of the fixed list.
RecognizedInPriorityOrder ==
    SelectSeq(possible_callers, LAMBDA c : c \in Range(df.columns))

\* C2 as stated: when the header holds more than 3 recognized names, only the
\* first 3 in priority order are used: caller_names has exactly those 3 names,
\* num_callers is 3 and counts holds the 7 three-caller buckets.
C2_FirstThreeUsed ==
    (Returned /\ Cardinality(RecognizedInHeader) > 3)
        => /\ caller_names = SubSeq(RecognizedInPriorityOrder, 1, 3)
           /\ num_callers = 3
           /\ DOMAIN counts = { PatternKey(b) : b \in NonEmptyPatterns(3) }

\* C3: when the header holds 0 or 1 recognized names, the run has ended in
\* read_tsv_and_count_variants with a non-zero exit code: no diagram call, no
\* image, no counts, and a line on the error stream that lists the columns of
\* the table.
C3_TooFewColumnsAbort ==
    (Scanned /\ Cardinality(RecognizedInHeader) < 2)
        => /\ pc = "exited"
           /\ exit_code # 0
           /\ venn_call = NoCall
           /\ ~image_written
           /\ counts = NoCounts
           /\ num_callers = 0
           /\ \E i \in DOMAIN stderr :
                 /\ stderr[i].tag = "Available columns"
                 /\ stderr[i].names = df.columns

\* A run ended by the column check on a table with one recognized column and
\* one other column.
C3_Witness ==
    /\ pc = "exited"
    /\ exit_code = 1
    /\ df.columns = <<"CHROM", "GATK">>
    /\ Len(df.rows) = 2
    /\ Len(stderr) = 2

\* C4: the caller list is the subsequence of the fixed list whose names occur
\* in the header, in the fixed list's order, whatever the order of the
\* header's columns (the header read backwards gives the same list, and the
\* list is a function of the set of names alone); Bcftools and bcftools
\* together are two callers.
C4_SelectionInPriorityOrder ==
    Scanned
        => /\ caller_names = RecognizedInPriorityOrder
           /\ Range(caller_names) = RecognizedInHeader
           /\ LET k == Len(df.columns)
                  backwards == [ i \in 1..k |-> df.columns[k + 1 - i] ]
              IN  SelectCallers(backwards) = caller_names
           /\ {"Bcftools", "bcftools"} \subseteq Range(df.columns)
                => {"Bcftools", "bcftools"} \subseteq Range(caller_names)

\* Both casings present, in a header that is not in priority order.
C4_Witness ==
    /\ Scanned
    /\ df.columns = <<"bcftools", "CHROM", "GATK", "Bcftools">>
    /\ caller_names = <<"Bcftools", "GATK", "bcftools">>

\* C5 as stated: whenever read_tsv_and_count_variants returns, num_callers is
\* 2 or 3, caller_names has that length and the keys of counts are exactly
\* the non-empty patterns of that length, each with a count of 0 or more.
C5_ReturnShape ==
    Returned
        => /\ num_callers \in {2, 3}
           /\ Len(caller_names) = num_callers
           /\ DOMAIN counts = { PatternKey(b) : b \in NonEmptyPatterns(num_callers) }
           /\ \A k \in DOMAIN counts : counts[k] >= 0

\* The stages of a run as they show on standard output, in order.
StageOrder ==
    << "VCF Venn Diagram Plotter", "Reading input file", "Found callers",
       "Creating Venn diagram", "Venn diagram saved to", "Variant counts:", "Done!" >>

StagesPrinted == SelectSeq(stdout, LAMBDA l : l.tag \in Range(StageOrder))

\* The run ended on a request for help: the usage text and nothing else.
HelpOnly ==
    /\ stdout = << Line("usage", <<>>, 0) >>
    /\ stderr = <<>>
    /\ df = NoTable
    /\ venn_call = NoCall

\* The order of the steps: the stages show in order; savefig is reached only
\* after the dependency check, the table read and the column check have
\* succeeded; a missing dependency, an unreadable file or fewer than 2
\* recognized columns ends the run non-zero with a message on the error
\* stream and nothing of a later step done.
StepsInOrder ==
    LET stages == StagesPrinted
        done   == Len(stages)
        failed == pc = "exited" /\ exit_code # 0
    IN  /\ done <= Len(StageOrder)
        /\ \A i \in 1..done : stages[i].tag = StageOrder[i]
        /\ (pc \in {"save", "summary"} \/ image_written \/ SaveFailed)
             => /\ df # NoTable
                /\ Cardinality(RecognizedInHeader) >= 2
                /\ Len(caller_columns) >= 2
                /\ done >= 4
        /\ image_written
             => /\ stderr = <<>>
                /\ exit_code = 0
                /\ done >= 5
        /\ (Scanned /\ Cardinality(RecognizedInHeader) < 2) => failed
        /\ failed
             => /\ stderr # <<>>
                /\ ~image_written
                /\ stderr[1].tag = "ImportError: matplotlib_venn"
                     => (stdout = <<>> /\ df = NoTable /\ venn_call = NoCall)
                /\ stderr[1].tag = "Error reading TSV file"
                     => /\ df = NoTable
                        /\ caller_columns = <<>>
                        /\ counts = NoCounts
                        /\ venn_call = NoCall
                        /\ done = 2
                /\ stderr[1].tag = "Error: Could not find at least 2 caller columns in TSV file"
                     => /\ df # NoTable
                        /\ Len(caller_columns) < 2
                        /\ counts = NoCounts
                        /\ num_callers = 0
                        /\ venn_call = NoCall
                        /\ done = 2
        /\ stderr # <<>> => failed

\* C7 as stated: the steps of a run occur in the order dependency check,
\* table read, column check, count, render, write image, exit; the image is
\* written only after the three checks have succeeded; the process exits
\* with code 0 only if the image was written; a missing dependency, an
\* unreadable file or fewer than 2 recognized columns ends the run non-zero
\* with a message on the error stream and no later step.
C7_ExitZeroOnlyWithImage ==
    /\ StepsInOrder
    /\ (pc = "exited" /\ exit_code = 0) => image_written

\* C7 amended: as stated, except that the process exits with code 0 only if
\* the image was written or the command line asked for help, in which case
\* the usage text is all the run has produced.
C7_PipelineOrder ==
    /\ StepsInOrder
    /\ (pc = "exited" /\ exit_code = 0)
         => \/ image_written /\ Len(StagesPrinted) = 7
            \/ ~image_written /\ HelpOnly

\* A run that went through every step on a two-caller table and ended with
\* exit code 0.
C7_Witness ==
    /\ pc = "exited"
    /\ exit_code = 0
    /\ image_written
    /\ num_callers = 2
    /\ Len(df.rows) = 2
    /\ venn_call.fn = "venn2"

\* A run ended by the column check.
C7_WitnessAbort ==
    /\ pc = "exited"
    /\ exit_code = 1
    /\ Len(stderr) = 2
    /\ Len(caller_columns) = 1

\* The table has exactly 3 recognized columns and every row has 0 in each.
AllZeroThreeCallerTable ==
    /\ df # NoTable
    /\ Cardinality(RecognizedInHeader) = 3
    /\ \A i \in DOMAIN df.rows : \A c \in RecognizedInHeader :
           df.rows[i][ColumnOf(df, c)] = 0

\* What C9 says of every stage before the end of the run: the 7 counts are
\* 0, the imbalance check takes 1 for the smallest non-zero count and asks
\* for no rescaling, venn3 is called with seven zeros, and the run goes on.
AllZeroStages ==
    /\ Returned
         => /\ num_callers = 3
            /\ DOMAIN counts = { PatternKey(b) : b \in NonEmptyPatterns(3) }
            /\ \A k \in DOMAIN counts : counts[k] = 0
    /\ pc \in {"draw", "save", "summary"} => all_counts # <<>>
    /\ all_counts # <<>>
         => /\ all_counts = <<0, 0, 0, 0, 0, 0, 0>>
            /\ max_count = 0
            /\ min_nonzero = 1
            /\ normalize_to = "None"
    /\ pc \in {"save", "summary"} => venn_call # NoCall
    /\ venn_call # NoCall
         => /\ venn_call.fn = "venn3"
            /\ venn_call.subsets = <<0, 0, 0, 0, 0, 0, 0>>
    /\ pc = "summary" => image_written
    /\ pc # "exited" => ENABLED Next

C9_WitnessNoRows ==
    /\ AllZeroThreeCallerTable
    /\ df.rows = <<>>
    /\ pc = "exited"
    /\ exit_code = 0
    /\ image_written

(***************************************************************************)
(* The diagram (checked under SpecVenn)                                    *)
(***************************************************************************)
\* The diagram call has been made.
Drawn ==
    \/ pc \in {"save", "summary"}
    \/ pc = "exited" /\ (image_written \/ SaveFailed)

\* The largest bucket exceeds 10 times the smallest non-zero bucket.
TenfoldImbalance ==
    \E k1, k2 \in DOMAIN counts :
        /\ counts[k2] > 0
        /\ counts[k1] > 10 * counts[k2]

\* C8 as stated: the rescaling hint is applied to the diagram that is drawn
\* exactly when num_callers is 3 and the largest of the 7 counts exceeds 10
\* times the smallest non-zero count.
C8_HintReachesDiagram ==
    Drawn => ( venn_call.normalize_to = "region"
                 <=> (num_callers = 3 /\ TenfoldImbalance) )

\* The regions of the library's subsets tuples, as sets of caller positions:
\* venn2 takes (only 1, only 2, both), venn3 takes (only 1, only 2, 1&2,
\* only 3, 1&3, 2&3, all).
Venn2Regions == << {1}, {2}, {1, 2} >>

Venn3Regions == << {1}, {2}, {1, 2}, {3}, {1, 3}, {2, 3}, {1, 2, 3} >>

RegionsOf(n) == IF n = 2 THEN Venn2Regions ELSE Venn3Regions

\* The summary lines printed, and the caller positions a line names.
SummaryPrinted ==
    SelectSeq(stdout, LAMBDA l : l.tag \in {"Unique to", "only", "Common to both", "Common to all three"})

PositionsNamed(l) == { j \in DOMAIN caller_names : caller_names[j] \in Range(l.names) }

\* The values handed on are the counts of the patterns the regions name.
C10_ValuesHandedOn ==
    num_callers \in {2, 3}
        => /\ Drawn
             => /\ venn_call.fn = (IF num_callers = 2 THEN "venn2" ELSE "venn3")
                /\ venn_call.set_labels = caller_names
                /\ DOMAIN venn_call.subsets = DOMAIN RegionsOf(num_callers)
                /\ \A i \in DOMAIN venn_call.subsets :
                      venn_call.subsets[i] = counts[KeyOfSet(RegionsOf(num_callers)[i], num_callers)]
           /\ (pc = "exited" /\ image_written)
             => /\ { KeyOfSet(PositionsNamed(SummaryPrinted[i]), num_callers) :
                       i \in DOMAIN SummaryPrinted } = DOMAIN counts
                /\ Len(SummaryPrinted) = Cardinality(DOMAIN counts)
                /\ \A i \in DOMAIN SummaryPrinted :
                      SummaryPrinted[i].value
                          = counts[KeyOfSet(PositionsNamed(SummaryPrinted[i]), num_callers)]

\* C10: for 2 or 3 callers create_venn_diagram leaves the counts as they were
\* computed and hands them to the renderer and to the printed summary without
\* permutation: each region and each summary line gets the count of the
\* pattern whose set bits are the callers it names, with or without the
\* rescaling hint.
C10_CountsHandedOnUnchanged ==
    /\ []C10_ValuesHandedOn
    /\ [][counts' = counts /\ caller_names' = caller_names]_vars

\* A finished three-caller run with the hint computed: 11 rows called by the
\* first caller only and 1 row called by the first two.
C10_Witness ==
    /\ pc = "exited"
    /\ image_written
    /\ num_callers = 3
    /\ normalize_to = "region"
    /\ counts["100"] = 11
    /\ counts["110"] = 1
    /\ venn_call.subsets = <<11, 0, 1, 0, 0, 0, 0>>

\* A finished two-caller run.
C10_WitnessTwo ==
    /\ pc = "exited"
    /\ image_written
    /\ num_callers = 2
    /\ venn_call.subsets = <<3, 1, 2>>

====
